---- MODULE Spec2Model ----
(***************************************************************************)
(* Model of flash.py: the Flash random walk (random_walk / next_node /     *)
(* add_node / render_path) and the make_flash orchestration loop.          *)
(*                                                                         *)
(* Coordinates live on the integer lattice.  The jitter of random_point    *)
(* is integer arithmetic and is modelled exactly.  A polar step            *)
(* (Vector.from_polar) is modelled by the lattice vectors obtained by      *)
(* rounding a point of the circle of the step's radius, restricted to the  *)
(* directions the step's angle can take.                                   *)
(***************************************************************************)
EXTENDS Integers, Sequences, FiniteSets, TLC

\* ---- bounds of the model ------------------------------------------------
MaxCalls == 2          \* calls made on the Flash objects (Spec, SpecPath)
MaxNodes == 3          \* largest node budget passed to make_flash (SpecMake)

\* ---- program constants --------------------------------------------------
RetryLimit == 10       \* retry = 10
JitterSize == 10       \* random_point(x=10, y=10), random_point(10, 10)
PerimeterDivisor == 20 \* height / 20
EndYDivisor == 2       \* random_point(width, height / 2)

\* ---- inputs -------------------------------------------------------------
\* the draws of random.randint(1, 10) explored for the step length
StepLengths == {1, 2}
CanvasWidths == {2}
CanvasHeights == {0, 4}
MakeWidths == {1}
MakeHeights == {0, 4}

VARIABLES
    flashes,    \* the Flash objects, in creation order
    heap,       \* next object identity to hand out
    wpc,        \* position inside random_walk: "idle" | "loop" | "fallback"
    cur,        \* index of the Flash whose random_walk is running
    length,     \* random_walk's local `length`
    altArg,     \* random_walk's argument `alternate`
    node,       \* random_walk's local `node` (the candidate)
    retry,      \* random_walk's local `retry`
    toggles,    \* history: times __alternate flipped during the current call
    factor,     \* history: <<factor>> used by the latest next_node, <<>> if none
    err,        \* "none" or the exception that escaped
    walks,      \* history: completed random_walk calls, per Flash
    adds,       \* history: completed add_node calls, per Flash
    calls,      \* API calls made so far (Spec)
    rendered,   \* result of the latest render_path
    mpc,        \* position inside make_flash: "off" | "loop" | "done" | "raised"
    nodesArg,   \* make_flash's argument `nodes`
    iter,       \* iterations of make_flash's for loop begun so far
    active      \* make_flash's local `flash` (index into flashes)

vars == <<flashes, heap, wpc, cur, length, altArg, node, retry, toggles,
          factor, err, walks, adds, calls, rendered, mpc, nodesArg, iter, active>>

NoPoint == [x |-> 0, y |-> 0]

\* ---- Point --------------------------------------------------------------
Point(id, x, y) == [kind |-> "Point", id |-> id, x |-> x, y |-> y]

FlashObject(id) == [kind |-> "Flash", id |-> id, x |-> 0, y |-> 0]

\* Point defines no __eq__: == is object identity.
PyEq(p, q) == p.id = q.id

XY(p) == [x |-> p.x, y |-> p.y]

translate(p, dx, dy) == [x |-> p.x + dx, y |-> p.y + dy]

within_limits(p, x, y) == p.x >= 0 /\ p.x <= x /\ p.y >= 0 /\ p.y <= y

Sq(n) == n * n

\* Vector(a, b).length ** 2
LengthSq(a, b) == Sq(b.x - a.x) + Sq(b.y - a.y)

\* within_perimeter with `<=` for `<`
within_perimeter_inclusive(p, other, rNum, rDen) ==
    rNum >= 0 /\ Sq(rDen) * LengthSq(p, other) <= Sq(rNum)

\* within_perimeter with the radius of `height // 20` for `height / 20`
within_perimeter_floor(p, other, rNum, rDen) ==
    (rNum \div rDen) > 0 /\ LengthSq(p, other) < Sq(rNum \div rDen)

\* Vector(self, other).length < r, with r = rNum / rDen and rDen > 0
within_perimeter(p, other, rNum, rDen) ==
    rNum > 0 /\ Sq(rDen) * LengthSq(p, other) < Sq(rNum)

\* ---- random --------------------------------------------------------------
\* random.randint(a, b)
randint(a, b) == a..b

\* int(random.random() * m) for m >= 0, m = num / den:
\* 0 .. ceil(m) - 1, and 0 alone when m = 0
IntOfRandomTimes(num, den) ==
    IF num <= 0 THEN {0} ELSE 0..(((num + den - 1) \div den) - 1)

\* module-level random_point(max_x, max_y) with max_y = yNum / yDen
random_point_in(max_x, yNum, yDen) ==
    { [x |-> px, y |-> py] : px \in IntOfRandomTimes(max_x, 1),
                             py \in IntOfRandomTimes(yNum, yDen) }

\* ---- Flash --------------------------------------------------------------
\* Flash.__init__: `start or Point(width // 2, height)`, `end or Point(width // 2, 0)`;
\* startOpt / endOpt are <<>> for None or <<p>> for a Point object; ids h, h + 1
\* are used for the Points the constructor itself creates.
FlashInit(width, height, startOpt, endOpt, h) ==
    LET s == IF startOpt = <<>> THEN Point(h, width \div 2, height) ELSE startOpt[1]
        e == IF endOpt = <<>> THEN Point(h + 1, width \div 2, 0) ELSE endOpt[1]
    IN [width |-> width, height |-> height, start |-> s, end |-> e,
        nodes |-> <<s>>, alt |-> 0]

\* Flash.points
points(fl) == SelectSeq(fl.nodes, LAMBDA n : n.kind = "Point")

\* Flash.current_point
current_point(fl) == points(fl)[Len(points(fl))]

\* Flash.random_node
random_node(fl) == { fl.nodes[i] : i \in randint(1, Len(fl.nodes)) }

\* the draws of random.randint(1, x) explored for the jitter: the smallest, the
\* one that gives a zero offset, and the largest
JitterDraws(x) == { r \in randint(1, x) : r = 1 \/ r = x \div 2 \/ r = x }

\* Flash.random_point(x, y)
random_point(fl, x, y) ==
    { translate(current_point(fl), rx - (x \div 2), ry - (y \div 2)) :
        rx \in JitterDraws(x), ry \in JitterDraws(y) }

\* alternate without the flip of the flag
alternate_stuck(flag, a, b) == [flag |-> flag, value |-> IF flag = 0 THEN a ELSE b]

\* Flash.alternate(a, b): the flipped flag and the value returned
alternate(flag, a, b) ==
    LET f == IF flag = 0 THEN 1 ELSE 0
    IN [flag |-> f, value |-> IF f = 0 THEN a ELSE b]

\* add_node with an insert at the front for the append
add_node_front(fl, p) == [fl EXCEPT !.nodes = <<p>> \o @]

\* Flash.add_node's append
add_node(fl, p) == [fl EXCEPT !.nodes = Append(@, p)]

\* edges with `enumerate(self.points[1:], 1)`: both ends taken from points[1:]
edges_shifted(fl) ==
    LET pts == points(fl)
    IN [i \in 1..(Len(pts) - 1) |-> [a |-> pts[i + 1], b |-> pts[i + 1]]]

\* Flash.edges
edges(fl) ==
    LET pts == points(fl)
    IN [i \in 1..(Len(pts) - 1) |-> [a |-> pts[i], b |-> pts[i + 1]]]

\* ---- polar steps on the lattice ------------------------------------------
Abs(n) == IF n < 0 THEN -n ELSE n
Max0(n) == IF n < 0 THEN 0 ELSE n

\* (dx, dy) is the rounding of some point at distance r from the origin
OnCircle(dx, dy, r) ==
    /\ Sq(Max0(2 * Abs(dx) - 1)) + Sq(Max0(2 * Abs(dy) - 1)) <= 4 * Sq(r)
    /\ 4 * Sq(r) <= Sq(2 * Abs(dx) + 1) + Sq(2 * Abs(dy) + 1)

\* factor /= 0: new_angle = pi/2 - factor * deflect * pi/2 with deflect in [0, 1):
\* the quarter circle from straight up towards +x (factor 1) or -x (factor -1)
TurnSteps(fac, len) ==
    { d \in [x : (-len)..len, y : 0..len] :
        /\ OnCircle(d.x, d.y, len)
        /\ fac * d.x >= 0 }

\* factor == 0: new_angle = pi/2 - Vector(b, end).phi + (deflect - 0.5), radius
\* length ** 2: within half a radian (rounded: within 45 degrees) of the
\* direction from b to end
LungeSteps(b, end, len) ==
    LET r == Sq(len)
        ex == end.x - b.x
        ey == end.y - b.y
    IN { d \in [x : (-r)..r, y : (-r)..r] :
           /\ OnCircle(d.x, d.y, r)
           /\ d.x * ex + d.y * ey > 0
           /\ 2 * Sq(d.x * ex + d.y * ey) >= (Sq(d.x) + Sq(d.y)) * (Sq(ex) + Sq(ey)) }

\* The factor selection of next_node: the new flag and the factor
Factors(flag, alt) ==
    IF alt
    THEN { [flag |-> alternate(flag, 0, r).flag, factor |-> alternate(flag, 0, r).value,
            tog |-> 1] : r \in randint(-1, 1) }
    ELSE { [flag |-> flag, factor |-> r, tog |-> 0] : r \in randint(-1, 1) }

\* Vector(b, end).heading divides by Vector(b, end).length
HeadingRaises(b, end) == LengthSq(b, end) = 0

\* next_node(length): every outcome of one call, as
\* [raise, pt, flag, factor, tog]; raise is the ZeroDivisionError of heading
next_node(fl, len, alt) ==
    LET pts == points(fl)
        b == pts[Len(pts)]
    IN IF Len(pts) < 2
       THEN { [raise |-> FALSE, pt |-> p, flag |-> fl.alt, factor |-> <<>>, tog |-> 0] :
                p \in random_point(fl, JitterSize, JitterSize) }
       ELSE UNION { IF c.factor = 0
                    THEN IF HeadingRaises(b, fl.end)
                         THEN { [raise |-> TRUE, pt |-> NoPoint, flag |-> c.flag,
                                 factor |-> <<0>>, tog |-> c.tog] }
                         ELSE { [raise |-> FALSE, pt |-> translate(b, d.x, d.y),
                                 flag |-> c.flag, factor |-> <<0>>, tog |-> c.tog] :
                                  d \in LungeSteps(b, fl.end, len) }
                    ELSE { [raise |-> FALSE, pt |-> translate(b, d.x, d.y),
                            flag |-> c.flag, factor |-> <<c.factor>>, tog |-> c.tog] :
                             d \in TurnSteps(c.factor, len) }
                  : c \in Factors(fl.alt, alt) }

\* Flash.render_path: the joints visited (i < lp - 2), whether every
\* `assert v1.b == v2.a` passes, and the number of backflash points emitted
render_path(fl) ==
    LET es == edges(fl)
        lp == Len(points(fl))
        joints == { i \in 0..(Len(es) - 1) : i < lp - 2 }
        ok == \A i \in joints : PyEq(es[i + 1].b, es[i + 2].a)
    IN [ok |-> ok, backflash |-> IF ok THEN Cardinality(joints) ELSE 0, lp |-> lp]

\* ---- random_walk, step by step --------------------------------------------
NotRendered == [flash |-> 0, ok |-> TRUE, backflash |-> 0, lp |-> 0]

\* random_walk's locals once the call is over
WalkOver ==
    /\ wpc' = "idle"
    /\ length' = 0
    /\ altArg' = FALSE
    /\ node' = NoPoint
    /\ retry' = 0
    /\ toggles' = 0
    /\ factor' = <<>>

\* a ZeroDivisionError leaves random_walk (and make_flash, when it is the caller)
Raised ==
    /\ err' = "ZeroDivisionError"
    /\ mpc' = IF mpc = "loop" THEN "raised" ELSE mpc
    /\ WalkOver

\* `length = length or random.randint(1, 10)`; `node = next_node(length)`;
\* `retry = 10`, on Flash f of the list fls
BeginWalk(fls, f, lengthArg, alt) ==
    \E draw \in StepLengths :
      LET len == IF lengthArg = 0 THEN draw ELSE lengthArg
      IN \E o \in next_node(fls[f], len, alt) :
           /\ flashes' = [fls EXCEPT ![f].alt = o.flag]
           /\ cur' = f
           /\ IF o.raise
              THEN Raised
              ELSE /\ err' = err
                   /\ mpc' = mpc
                   /\ wpc' = "loop"
                   /\ length' = len
                   /\ altArg' = alt
                   /\ node' = o.pt
                   /\ retry' = RetryLimit
                   /\ toggles' = o.tog
                   /\ factor' = o.factor

\* a caller may use the Flash objects: no call is running, no exception has
\* escaped, and the paths have not been rendered yet
Callable ==
    /\ mpc = "off"
    /\ wpc = "idle"
    /\ err = "none"
    /\ rendered = NotRendered
    /\ calls < MaxCalls

\* Flash.random_walk(length, alternate=alt) is called on Flash f
RandomWalk(f, lengthArg, alt) ==
    /\ Callable
    /\ calls' = calls + 1
    /\ BeginWalk(flashes, f, lengthArg, alt)
    /\ UNCHANGED <<heap, walks, adds, rendered, nodesArg, iter, active>>

\* `self.add_node(node)` and the return of random_walk
Appended(p) ==
    /\ flashes' = [flashes EXCEPT ![cur] = add_node(@, Point(heap, p.x, p.y))]
    /\ heap' = heap + 1
    /\ walks' = [walks EXCEPT ![cur] = @ + 1]
    /\ WalkOver

\* `while not node.within_limits(...)` is false: `self.add_node(node)`
WalkAccept ==
    /\ wpc = "loop"
    /\ within_limits(node, flashes[cur].width, flashes[cur].height)
    /\ Appended(node)
    /\ UNCHANGED <<cur, err, adds, calls, rendered, mpc, nodesArg, iter, active>>

\* the loop body: `node = next_node(length)`, `retry -= 1`, up to the test
\* `if retry == 0`; next_node may raise
WalkRetry ==
    /\ wpc = "loop"
    /\ ~within_limits(node, flashes[cur].width, flashes[cur].height)
    /\ \E o \in next_node(flashes[cur], length, altArg) :
         /\ flashes' = [flashes EXCEPT ![cur].alt = o.flag]
         /\ IF o.raise
            THEN Raised
            ELSE /\ node' = o.pt
                 /\ toggles' = toggles + o.tog
                 /\ factor' = o.factor
                 /\ retry' = retry - 1
                 /\ wpc' = IF retry - 1 = 0 THEN "fallback" ELSE "loop"
                 /\ UNCHANGED <<length, altArg, err, mpc>>
    /\ UNCHANGED <<heap, cur, walks, adds, calls, rendered, nodesArg, iter, active>>

\* `if retry == 0` is true: `node = self.random_point()`, `break`,
\* `self.add_node(node)`
WalkFallback ==
    /\ wpc = "fallback"
    /\ \E p \in random_point(flashes[cur], JitterSize, JitterSize) : Appended(p)
    /\ UNCHANGED <<cur, err, adds, calls, rendered, mpc, nodesArg, iter, active>>

\* Flash.add_node(node): node is None ("none"), a Flash object ("flash") or a
\* Point object already held by some Flash ("point")
AddNode(f, what) ==
    /\ Callable
    /\ calls' = calls + 1
    /\ \/ /\ what = "none"
          /\ \E p \in random_point(flashes[f], JitterSize, JitterSize) :
               flashes' = [flashes EXCEPT ![f] = add_node(@, Point(heap, p.x, p.y))]
          /\ heap' = heap + 1
       \/ /\ what = "flash"
          /\ flashes' = [flashes EXCEPT ![f] = add_node(@, FlashObject(heap))]
          /\ heap' = heap + 1
       \/ /\ what = "point"
          /\ \E g \in 1..Len(flashes) : \E p \in random_node(flashes[g]) :
               flashes' = [flashes EXCEPT ![f] = add_node(@, p)]
          /\ heap' = heap
    /\ adds' = [adds EXCEPT ![f] = @ + 1]
    /\ UNCHANGED <<wpc, cur, length, altArg, node, retry, toggles, factor, err,
                   walks, rendered, mpc, nodesArg, iter, active>>

\* Flash.render_path() is called on Flash f
RenderPath(f) ==
    /\ mpc = "off"
    /\ wpc = "idle"
    /\ err = "none"
    /\ rendered = NotRendered
    /\ calls' = calls
    /\ rendered' = [flash |-> f, ok |-> render_path(flashes[f]).ok,
                    backflash |-> render_path(flashes[f]).backflash,
                    lp |-> render_path(flashes[f]).lp]
    /\ UNCHANGED <<flashes, heap, wpc, cur, length, altArg, node, retry, toggles,
                   factor, err, walks, adds, mpc, nodesArg, iter, active>>

\* ---- make_flash -----------------------------------------------------------
\* the seed taken from the active Flash
SpawnSourceActive(fls, act) == fls[act]

\* the Flash whose node seeds a spawned Flash: first_flash
SpawnSource(fls, act) == fls[1]

\* a loop that runs once more than `nodes`
LoopContinuesInclusive(i, n) == i <= n

\* `for _ in range(nodes)` has another iteration to run
LoopContinues(i, n) == i < n

\* one iteration of the for loop up to and including the call of random_walk
MfIterate ==
    /\ mpc = "loop"
    /\ wpc = "idle"
    /\ LoopContinues(iter, nodesArg)
    /\ iter' = iter + 1
    /\ LET fl == flashes[active]
       IN IF within_perimeter(current_point(fl), fl.end, fl.height, PerimeterDivisor)
          THEN \E s \in random_node(SpawnSource(flashes, active)) :
               \E e \in random_point_in(fl.width, fl.height, EndYDivisor) :
                 LET new == FlashInit(fl.width, fl.height, <<s>>,
                                      <<Point(heap, e.x, e.y)>>, heap)
                 IN /\ heap' = heap + 1
                    /\ active' = Len(flashes) + 1
                    /\ walks' = Append(walks, 0)
                    /\ adds' = Append(adds, 0)
                    /\ BeginWalk(Append(flashes, new), Len(flashes) + 1, 0, FALSE)
          ELSE /\ heap' = heap
               /\ active' = active
               /\ walks' = walks
               /\ adds' = adds
               /\ BeginWalk(flashes, active, 0, FALSE)
    /\ UNCHANGED <<calls, rendered, nodesArg>>

\* `return flashes`
MfReturn ==
    /\ mpc = "loop"
    /\ wpc = "idle"
    /\ ~LoopContinues(iter, nodesArg)
    /\ mpc' = "done"
    /\ UNCHANGED <<flashes, heap, wpc, cur, length, altArg, node, retry, toggles,
                   factor, err, walks, adds, calls, rendered, nodesArg, iter, active>>

\* ---- specifications -------------------------------------------------------
WalkIdle ==
    /\ wpc = "idle"
    /\ cur = 1
    /\ length = 0
    /\ altArg = FALSE
    /\ node = NoPoint
    /\ retry = 0
    /\ toggles = 0
    /\ factor = <<>>
    /\ err = "none"
    /\ calls = 0
    /\ rendered = NotRendered

\* the start argument given to the first Flash(...): a Point inside the canvas
StartArgs(w, h, id) == { <<Point(id, 0, 0)>> }

\* two Flash objects have been constructed on one canvas
Init ==
    /\ \E w \in CanvasWidths, h \in CanvasHeights : \E s \in StartArgs(w, h, 1) :
         flashes = << FlashInit(w, h, s, <<>>, 1), FlashInit(w, h, <<>>, <<>>, 3) >>
    /\ heap = 5
    /\ walks = <<0, 0>>
    /\ adds = <<0, 0>>
    /\ mpc = "off"
    /\ nodesArg = 0
    /\ iter = 0
    /\ active = 1
    /\ WalkIdle

\* random_walk calls on the two Flash objects
Next ==
    \/ \E f \in 1..Len(flashes), alt \in BOOLEAN : RandomWalk(f, 0, alt)
    \/ WalkAccept
    \/ WalkRetry
    \/ WalkFallback

Spec == Init /\ [][Next]_vars

\* random_walk and add_node calls on the first Flash, then render_path
NextPath ==
    \/ \E l \in StepLengths : RandomWalk(1, l, FALSE)
    \/ WalkAccept
    \/ WalkRetry
    \/ WalkFallback
    \/ \E what \in {"none", "flash", "point"} : AddNode(1, what)
    \/ RenderPath(1)

SpecPath == Init /\ [][NextPath]_vars

\* make_flash(width, height, nodes, verbose) has created its first Flash
InitMake ==
    /\ \E w \in MakeWidths, h \in MakeHeights :
         flashes = << FlashInit(w, h, <<>>, <<>>, 1) >>
    /\ heap = 3
    /\ walks = <<0>>
    /\ adds = <<0>>
    /\ mpc = "loop"
    /\ nodesArg \in 0..MaxNodes
    /\ iter = 0
    /\ active = 1
    /\ WalkIdle

NextMake ==
    \/ MfIterate
    \/ WalkAccept
    \/ WalkRetry
    \/ WalkFallback
    \/ MfReturn

SpecMake == InitMake /\ [][NextMake]_vars

\* ---- properties -----------------------------------------------------------
Flashes == 1..Len(flashes)
Tip(f) == current_point(flashes[f])
InCanvas(p, f) == 0 <= p.x /\ p.x <= flashes[f].width /\ 0 <= p.y /\ p.y <= flashes[f].height
AtEnd(f) == Tip(f).x = flashes[f].end.x /\ Tip(f).y = flashes[f].end.y
Walking == wpc /= "idle"

RECURSIVE GrownNodes(_)
\* sum of len(flash) - 1 over the first k Flash objects
GrownNodes(k) == IF k = 0 THEN 0 ELSE GrownNodes(k - 1) + Len(flashes[k].nodes) - 1

\* C1: every node appended by random_walk lies within [0, width] x [0, height],
\* the node appended by the fallback after the retries included.
C1_WalkNodesWithinLimits ==
    \A f \in Flashes : \A i \in 2..Len(flashes[f].nodes) :
        InCanvas(flashes[f].nodes[i], f)

\* C2: random_walk never raises, also when the tip coincides with end.
C2_RandomWalkNeverRaises == err = "none"

Remaining ==
    (nodesArg - iter) * (RetryLimit + 3)
      + (IF wpc = "loop" THEN retry + 2 ELSE IF wpc = "fallback" THEN 1 ELSE 0)
      + (IF mpc = "loop" THEN 1 ELSE 0)

\* C4: make_flash terminates: it is never stuck before its end and every step
\* lowers a non-negative variant.  When it returns, the loop ran exactly `nodes`
\* times and the returned Flash objects hold `nodes` nodes beyond their seeds;
\* with nodes = 0 there is one Flash holding its seed only.
C4_ExactlyNodesSteps ==
    /\ [](/\ iter <= nodesArg
          /\ Remaining >= 0
          /\ GrownNodes(Len(flashes)) = iter - (IF Walking \/ mpc = "raised" THEN 1 ELSE 0)
          /\ mpc = "loop" => ENABLED NextMake
          /\ mpc = "done" =>
               /\ iter = nodesArg
               /\ GrownNodes(Len(flashes)) = nodesArg
               /\ nodesArg = 0 =>
                    /\ Len(flashes) = 1
                    /\ flashes[1].nodes = <<flashes[1].start>>)
    /\ [][Remaining' < Remaining]_vars

\* C4 witness: make_flash returned several Flash objects after three steps
C4_Witness == mpc = "done" /\ nodesArg = 3 /\ Len(flashes) >= 2

\* C5: the start of every spawned Flash is a node object of the first Flash.
C5_StartsFromFirstFlash ==
    \A k \in 2..Len(flashes) :
        /\ \E i \in 1..Len(flashes[1].nodes) : flashes[1].nodes[i] = flashes[k].start
        /\ flashes[k].nodes[1] = flashes[k].start

\* C5 witness: a Flash was spawned while a spawned Flash holding a node of its
\* own was the active one
C5_Witness == Len(flashes) >= 3 /\ Len(flashes[2].nodes) >= 2

\* C6: an iteration spawns a Flash iff the active tip is strictly nearer than
\* height/20 to the active end; the spawned Flash becomes active and is listed
\* before the walk step, which runs on the active Flash; only the last Flash of
\* the list grows.
C6_SpawnIffNear ==
    [][/\ iter' = iter + 1 =>
            LET fl == flashes[active]
                near == /\ fl.height > 0
                        /\ 400 * (Sq(Tip(active).x - fl.end.x) + Sq(Tip(active).y - fl.end.y))
                             < Sq(fl.height)
            IN /\ near <=> Len(flashes') = Len(flashes) + 1
               /\ ~near => Len(flashes') = Len(flashes) /\ active' = active
               /\ near => /\ active' = Len(flashes')
                          /\ Len(flashes'[active'].nodes) = 1
               /\ cur' = active'
               /\ \A k \in Flashes : flashes'[k].nodes = flashes[k].nodes
       /\ active' = Len(flashes')
       /\ \A k \in Flashes :
            flashes'[k].nodes /= flashes[k].nodes => k = Len(flashes') /\ k = cur]_vars

\* C6 witness: a Flash was spawned and has taken a walk step
C6_Witness == Len(flashes) = 2 /\ Len(flashes[2].nodes) >= 2 /\ active = 2

\* C7: the fallback point replaces the candidate only when the candidate is
\* still out of bounds after the retries: an in-bounds candidate is the node
\* appended.
C7_FallbackOnlyOutOfBounds ==
    wpc = "fallback" => ~InCanvas(node, cur)

\* C8: consecutive edges share their joint object, render_path's assertion
\* holds, and render_path emits len(points) - 2 backflash points (none below 3
\* points).
C8_JointsShared ==
    /\ \A f \in Flashes : \A i \in 1..(Len(points(flashes[f])) - 2) :
         /\ edges(flashes[f])[i].b.id = edges(flashes[f])[i + 1].a.id
         /\ edges(flashes[f])[i].a = points(flashes[f])[i]
    /\ rendered.flash /= 0 =>
         /\ rendered.ok
         /\ rendered.lp = Len(points(flashes[rendered.flash]))
         /\ rendered.backflash = IF rendered.lp < 3 THEN 0 ELSE rendered.lp - 2

\* C8 witness: a path of three points grown by random_walk / add_node was rendered
C8_Witness ==
    /\ rendered.flash /= 0
    /\ rendered.lp >= 3
    /\ rendered.backflash >= 1
    /\ walks[rendered.flash] >= 1
    /\ adds[rendered.flash] >= 1

\* C9 (as claimed): with alternate=True on a Flash of two or more points the
\* flag flips exactly once per random_walk call, whatever the retries.
C9_TogglesOncePerCall ==
    (Walking /\ altArg /\ Len(points(flashes[cur])) >= 2) => toggles = 1

\* C9 (amended): the flag flips exactly once per candidate generation with
\* alternate=True on a Flash of two or more points, so once per retry as well;
\* the factor is 0 when the flag becomes 0 and a draw from {-1, 0, 1} when it
\* becomes 1; no other step and no other Flash's call changes a Flash's flag.
C9_TogglesPerCandidate ==
    [][\A f \in Flashes :
         LET generates == /\ cur' = f
                          /\ \/ wpc = "idle" /\ calls' = calls + 1
                             \/ wpc = "loop" /\ ~InCanvas(node, cur)
             flips == generates /\ altArg' /\ Len(points(flashes[f])) >= 2
         IN IF generates /\ err' /= "none"
            THEN TRUE
            ELSE IF flips
            THEN /\ flashes'[f].alt = 1 - flashes[f].alt
                 /\ toggles' = (IF wpc = "idle" THEN 0 ELSE toggles) + 1
                 /\ flashes'[f].alt = 0 => factor' = <<0>>
                 /\ flashes'[f].alt = 1 => factor' \in {<<-1>>, <<0>>, <<1>>}
            ELSE /\ flashes'[f].alt = flashes[f].alt
                 /\ generates => toggles' = (IF wpc = "idle" THEN 0 ELSE toggles)]_vars

\* C9 witness: one random_walk(alternate=True) call has flipped the flag twice
C9_Witness ==
    /\ Walking
    /\ altArg
    /\ toggles = 2
    /\ flashes[cur].alt = 0
    /\ factor = <<0>>

\* C10: in make_flash with height >= 1 random_walk never runs on a Flash of two
\* or more points whose tip equals its end, and no division by zero occurs.
C10_NoLungeAtEnd ==
    flashes[1].height >= 1 =>
        /\ err = "none"
        /\ mpc /= "raised"
        /\ (Walking /\ Len(points(flashes[cur])) >= 2) => ~AtEnd(cur)

\* C10 witness: the first Flash reached its end with two points, a Flash was
\* spawned and took its step through the jitter branch
C10_Witness ==
    /\ flashes[1].height >= 1
    /\ Len(flashes) >= 2
    /\ Len(points(flashes[1])) >= 2
    /\ AtEnd(1)
    /\ Len(flashes[2].nodes) >= 2

====
